---------------------------- MODULE Spec2Model ----------------------------
(***************************************************************************)
(* Model of resources/lib/run_addon.py (plugin.video.netflix): the service *)
(* status probe, the external-call guard, the lazy_login wrapper, the path *)
(* router and run().                                                       *)
(*                                                                         *)
(* One invocation of run(argv) is one behaviour.  External collaborators   *)
(* (login, check_credentials, the navigation handlers, the upgrade check,  *)
(* the configuration wizard, the host's property store and monitor) are    *)
(* nondeterministic: every outcome their interface allows is explored.     *)
(* Strings that the code builds are sequences of tokens, so that           *)
(* '/'.join(...) and str.format are computed, not assumed.                 *)
(***************************************************************************)
EXTENDS Integers, Sequences, FiniteSets, TLC

(***************************************************************************)
(* Bounds of the model.                                                    *)
(***************************************************************************)
\* Largest number of parts g.REQUEST_PATH.split('/') yields.
MaxParts == 2

\* Largest number of wrong-credentials answers (login() returning False)
\* the user gives in one invocation.
MaxWrongLogins == 2

(***************************************************************************)
(* Program constants.                                                      *)
(***************************************************************************)
\* limit_sec = 10 (seconds)
limit_sec == 10

\* The poll interval is 0.5 s: sec_elapsed is counted in half seconds.
TicksPerSec == 2

MODE_DIRECTORY == "directory"

MODE_ACTION == "action"

MODE_LIBRARY == "library"

MODE_HUB == "hub"

MODE_PLAY == "play"

MODE_PLAY_STRM == "play_strm"

\* The exception classes run_addon.py imports and tells apart; "Other" is
\* any exception that none of the except clauses names.
SessionInvalid == {"NotLoggedInError", "LoginValidateError"}

MembershipStatus == {"MbrStatusNeverMemberError", "MbrStatusFormerMemberError"}

ExcKinds ==
    SessionInvalid \cup MembershipStatus \cup
    {"MissingCredentialsError", "InvalidPathError", "BackendNotReady",
     "InputStreamHelperError", "HttpError401", "Other"}

NoExc == [kind |-> "none", msg |-> <<>>]

Raised(kind, msg) == [kind |-> kind, msg |-> msg]

(***************************************************************************)
(* Service Status Probe                                                    *)
(***************************************************************************)
\* Values the host's window property can hold.  getProperty returns the
\* empty string for a property that was never set.
PropValues ==
    {"", "not json", "{\"status\":\"running\"}",
     "{\"status\":\"error\",\"message\":\"X\"}", "{\"status\":\"starting\"}",
     "{\"message\":\"X\"}", "{}", "[1]", "null", "\"running\""}

\* A Python value as far as the module looks at it: its type, and for a
\* dict the values of the keys 'status' and 'message' ("None": key absent).
PyDict(status, message) == [t |-> "dict", status |-> status, message |-> message]

PyOther(t) == [t |-> t, status |-> "None", message |-> "None"]

EmptyDict == PyDict("None", "None")

\* json.loads: the parsed value, or "raise" (ValueError).
loads(s) ==
    CASE s = "{\"status\":\"running\"}" -> PyDict("running", "None")
      [] s = "{\"status\":\"error\",\"message\":\"X\"}" -> PyDict("error", "X")
      [] s = "{\"status\":\"starting\"}" -> PyDict("starting", "None")
      [] s = "{\"message\":\"X\"}" -> PyDict("None", "X")
      [] s = "{}" -> EmptyDict
      [] s = "[1]" -> PyOther("list")
      [] s = "null" -> PyOther("NoneType")
      [] s = "\"running\"" -> PyOther("str")
      [] OTHER -> PyOther("raise")

\* _get_service_status: loads(status) if status else {}; {} on any exception.
_get_service_status(status) ==
    IF status = "" THEN EmptyDict
    ELSE IF loads(status).t = "raise" THEN EmptyDict
    ELSE loads(status)

\* value.get(key): only a dict has .get; on anything else the attribute
\* lookup raises AttributeError.
GetRaises(value) == value.t # "dict"

GetStatus(value) == value.status

GetMessage(value) == value.message

(***************************************************************************)
(* Path handling                                                           *)
(***************************************************************************)
\* Parts between the slashes of g.REQUEST_PATH ("" is an empty part).  The
\* code compares only the first segment with the modes; later segments are
\* copied, joined and looked up as member names, so they are drawn from a
\* smaller set.
RootParts ==
    {"", MODE_PLAY, MODE_PLAY_STRM, MODE_DIRECTORY, MODE_ACTION, MODE_LIBRARY,
     MODE_HUB, "extrafanart", "foo"}

SubParts == {"", "export", "70211656"}

\* g.REQUEST_PATH.split('/'): at least one part.
SplitResults ==
    {parts \in UNION {[1..k -> RootParts \cup SubParts] : k \in 1..MaxParts} :
       /\ parts[1] \in RootParts
       /\ \A i \in 2..Len(parts) : parts[i] \in SubParts}

NonEmpty(part) == part # ""

\* [part for part in g.REQUEST_PATH.split('/') if part]
ParsePathitems(parts) == SelectSeq(parts, NonEmpty)

\* '/'.join(items), as a sequence of tokens.
RECURSIVE Join(_)
Join(items) ==
    IF Len(items) = 0 THEN <<>>
    ELSE IF Len(items) = 1 THEN <<items[1]>>
    ELSE <<items[1], "/">> \o Join(Tail(items))

\* pathitems[1:]
Rest(items) == IF Len(items) = 0 THEN <<>> ELSE Tail(items)

\* pathitems[:1]
FirstSlice(items) == IF Len(items) = 0 THEN <<>> ELSE <<items[1]>>

InSeq(x, s) == \E i \in 1..Len(s) : s[i] = x

(***************************************************************************)
(* Path Router                                                             *)
(***************************************************************************)
Ev(e, a) == [e |-> e, a |-> a]

PyBool(b) == IF b THEN "True" ELSE "False"

\* What a call into a collaborator can do: return, or raise any exception.
HandlerOutcomes ==
    {[res |-> "return", exc |-> NoExc]} \cup
    {[res |-> "raise", exc |-> Raised(k, <<"raised by collaborator">>)] : k \in ExcKinds}

RouteResult(events, res, exc) == [events |-> events, res |-> res, exc |-> exc]

\* How a call into a handler ended, recorded.
HandlerEnd(h) == <<Ev("handler_end", <<h.res, h.exc.kind>>)>>

\* The result of route after a handler call h that logged `events`:
\* falls through to "return True" unless the handler raised.
AfterHandler(events, h) ==
    IF h.res = "return" THEN RouteResult(events \o HandlerEnd(h), "True", NoExc)
    ELSE RouteResult(events \o HandlerEnd(h), "raise", h.exc)

\* Mutant: nav_handler starts as Directory instead of None.
_get_nav_handler_DefaultDirectory(root_handler) ==
    IF root_handler = MODE_HUB THEN "HubBrowser"
    ELSE IF root_handler = MODE_LIBRARY THEN "LibraryActionExecutor"
    ELSE IF root_handler = MODE_ACTION THEN "AddonActionExecutor"
    ELSE "Directory"

\* _get_nav_handler: the handler class for a root segment, "None" if none.
_get_nav_handler(root_handler) ==
    IF root_handler = MODE_HUB THEN "HubBrowser"
    ELSE IF root_handler = MODE_LIBRARY THEN "LibraryActionExecutor"
    ELSE IF root_handler = MODE_ACTION THEN "AddonActionExecutor"
    ELSE IF root_handler = MODE_DIRECTORY THEN "Directory"
    ELSE "None"

\* Mutant: _execute always looks up 'root'.
MemberName_AlwaysRoot(pathitems) == "root"

\* The name _execute looks up: pathitems[0] if pathitems else 'root'.
MemberName(pathitems) == IF Len(pathitems) > 0 THEN pathitems[1] ELSE "root"

\* 'Unknown action {}'.format('/'.join(pathitems))
UnknownActionError(pathitems) ==
    Raised("InvalidPathError", <<"Unknown action ">> \o Join(pathitems))

\* _execute(executor_type, pathitems, params): every outcome.  The
\* constructor and the attribute lookup are inside the try: an
\* AttributeError of either becomes InvalidPathError; every exception of
\* the member propagates.
_execute(executor_type, pathitems) ==
    LET inst == Ev("instantiate", <<executor_type>>)
        name == MemberName(pathitems)
        miss == Ev("getattr", <<executor_type, name, "AttributeError">>)
        hit  == Ev("getattr", <<executor_type, name, "found">>)
        call == Ev("invoke", <<executor_type, name>> \o pathitems)
    IN  {RouteResult(<<inst>>, "raise", UnknownActionError(pathitems))}
        \cup {RouteResult(<<inst, miss>>, "raise", UnknownActionError(pathitems))}
        \cup {AfterHandler(<<inst, hit, call>>, h) : h \in HandlerOutcomes}

\* Mutant: route hands the whole path to _execute.
ExecutePathitems_WholePath(pathitems) == pathitems

\* The sub-path route hands to _execute: pathitems[1:].
ExecutePathitems(pathitems) == Rest(pathitems)

\* 'No root handler for path {}'.format('/'.join(pathitems))
NoRootHandlerError(pathitems) ==
    Raised("InvalidPathError", <<"No root handler for path ">> \o Join(pathitems))

\* Mutant: route without the extrafanart branch.
IsIgnoredRoot_Never(root_handler) == FALSE

\* elif root_handler == 'extrafanart'
IsIgnoredRoot(root_handler) == root_handler = "extrafanart"

\* The call _get_nav_handler(root_handler), recorded.
Resolve(root_handler) == <<Ev("_get_nav_handler", <<root_handler>>)>>

\* Prefix the events of every result in `results` with `events`.
Prefixed(events, results) ==
    {RouteResult(events \o r.events, r.res, r.exc) : r \in results}

\* route(pathitems), the wrapped function: every outcome.
route(pathitems) ==
    LET root_handler == IF Len(pathitems) > 0 THEN pathitems[1] ELSE MODE_DIRECTORY
    IN  IF root_handler = MODE_PLAY
        THEN {AfterHandler(<<Ev("play", Rest(pathitems))>>, h) : h \in HandlerOutcomes}
        ELSE IF root_handler = MODE_PLAY_STRM
        THEN {AfterHandler(<<Ev("play_strm", Rest(pathitems))>>, h) : h \in HandlerOutcomes}
        ELSE IF IsIgnoredRoot(root_handler)
        THEN {RouteResult(<<Ev("warn", <<"Route: ignoring extrafanart invocation">>)>>,
                          "False", NoExc)}
        ELSE IF _get_nav_handler(root_handler) = "None"
        THEN {RouteResult(Resolve(root_handler), "raise", NoRootHandlerError(pathitems))}
        ELSE Prefixed(Resolve(root_handler),
                      _execute(_get_nav_handler(root_handler), ExecutePathitems(pathitems)))

(***************************************************************************)
(* State                                                                   *)
(***************************************************************************)
VARIABLES
    pc,               \* position of the invocation in run and its callees
    statusProp,       \* the window property nf_service_status_<profile>
    sec_elapsed,      \* the guard's local, in half seconds
    nSleeps,          \* waitForAbort(0.5) calls of the guard so far
    is_external_call, \* run's local (and g.IS_ADDON_EXTERNAL_CALL)
    service_status,   \* run's local: the probe's result at line 180
    probed,           \* the property value the last probe call read
    guardExit,        \* how the guard's loop ended: none, running, gave up
    success,          \* run's local
    pathitems,        \* run's local
    upgrade,          \* (is_first_run_install, cancel_playback) of line 199
    exc,              \* the exception travelling up to run's except clauses
    escaped,          \* the exception that left run uncaught, NoExc if none
    wres,             \* what lazy_login_wrapper did: none, True, False, raise
    log               \* calls made so far, in order

vars ==
    <<pc, statusProp, sec_elapsed, nSleeps, is_external_call,
      service_status, probed, guardExit, success, pathitems, upgrade, exc,
      escaped, wres, log>>

NoUpgrade == [is_first_run_install |-> FALSE, cancel_playback |-> FALSE]

Init ==
    /\ pc = "start"
    /\ statusProp \in PropValues
    /\ sec_elapsed = 0
    /\ nSleeps = 0
    /\ is_external_call = FALSE
    /\ service_status = EmptyDict
    /\ probed = ""
    /\ guardExit = "none"
    /\ success = TRUE
    /\ pathitems = <<>>
    /\ upgrade = NoUpgrade
    /\ exc = NoExc
    /\ escaped = NoExc
    /\ wres = "none"
    /\ log = <<>>

(***************************************************************************)
(* The background service                                                  *)
(***************************************************************************)
\* The service (another process) rewrites the status property at any
\* moment.  run does not read the property after line 180, so writes after
\* that read are not modelled.
ServiceWrite ==
    /\ pc \in {"start", "guard", "guard_exit", "status"}
    /\ \E v \in PropValues : v # statusProp /\ statusProp' = v
    /\ UNCHANGED <<pc, sec_elapsed, nSleeps, is_external_call,
                   service_status, probed, guardExit, success, pathitems,
                   upgrade, exc, escaped, wres, log>>

(***************************************************************************)
(* External-Call Guard                                                     *)
(***************************************************************************)
\* if is_other_plugin_name or not getCondVisibility("Window.IsMedia")
LooksExternal(is_other_plugin_name, window_is_media) ==
    is_other_plugin_name \/ ~window_is_media

\* The guard's limit in half seconds.
LimitTicks == limit_sec * TicksPerSec

\* sec_elapsed >= limit_sec
LimitReached(elapsed) == elapsed >= LimitTicks

\* _check_addon_external_call up to the loop: classify the invocation.
CheckExternal ==
    /\ pc = "start"
    /\ \E is_other_plugin_name \in BOOLEAN, window_is_media \in BOOLEAN :
         IF LooksExternal(is_other_plugin_name, window_is_media)
         THEN pc' = "guard"
         ELSE pc' = "status"
    /\ sec_elapsed' = 0
    /\ UNCHANGED <<guardExit, statusProp, nSleeps, is_external_call,
                   service_status, probed, success, pathitems, upgrade, exc,
                   escaped, wres, log>>

\* One evaluation of the while condition and, if it holds, of the body.
\* abort_requested and wait_aborted are what monitor.abortRequested() and
\* monitor.waitForAbort(0.5) answer; the second is only called when the
\* first two operands of the `or` are false.
GuardPoll ==
    /\ pc = "guard"
    /\ probed' = statusProp
    /\ LET st == _get_service_status(statusProp)
       IN  IF GetRaises(st)
           THEN /\ pc' = "raised"
                /\ escaped' = Raised("AttributeError", <<"line 153">>)
                /\ UNCHANGED <<sec_elapsed, nSleeps, guardExit>>
           ELSE IF GetStatus(st) = "running"
           THEN /\ pc' = "guard_exit"
                /\ guardExit' = "running"
                /\ UNCHANGED <<sec_elapsed, nSleeps, escaped>>
           ELSE \E abort_requested \in BOOLEAN, wait_aborted \in BOOLEAN :
                  /\ escaped' = escaped
                  /\ IF LimitReached(sec_elapsed) \/ abort_requested
                     THEN /\ pc' = "guard_exit"
                          /\ guardExit' = "gave up"
                          /\ UNCHANGED <<sec_elapsed, nSleeps>>
                     ELSE /\ nSleeps' = nSleeps + 1
                          /\ IF wait_aborted
                             THEN /\ pc' = "guard_exit"
                                  /\ guardExit' = "gave up"
                                  /\ sec_elapsed' = sec_elapsed
                             ELSE /\ pc' = "guard"
                                  /\ guardExit' = guardExit
                                  /\ sec_elapsed' = sec_elapsed + 1
    /\ UNCHANGED <<statusProp, is_external_call, service_status,
                   success, pathitems, upgrade, exc, wres, log>>

\* Lines 157-159: the guard returns True; its locals go out of scope.
GuardReturn ==
    /\ pc = "guard_exit"
    /\ pc' = "status"
    /\ is_external_call' = TRUE
    /\ sec_elapsed' = 0
    /\ nSleeps' = 0
    /\ UNCHANGED <<guardExit, statusProp, service_status, probed, success,
                   pathitems, upgrade, exc, escaped, wres, log>>

(***************************************************************************)
(* Run-loop Controller                                                     *)
(***************************************************************************)
\* Mutant: the not-ready notice whatever the status.
NotRunningDialog_AlwaysGeneric(status) == <<Ev("show_backend_not_ready", <<>>)>>

\* The dialog of lines 183-192 for a status that is not 'running'.
NotRunningDialog(status) ==
    IF GetStatus(status) = "error"
    THEN <<Ev("show_error_info", <<"30105", "30240", GetMessage(status), "False", "False">>)>>
    ELSE <<Ev("show_backend_not_ready", <<>>)>>

\* Mutant: the dialog is shown to external calls too.
ShowsDialog_Always(external) == TRUE

\* if not is_external_call: show a dialog
ShowsDialog(external) == ~external

\* Mutant: run reuses the value the guard's last poll read.
RunProbeReads_GuardValue == IF is_external_call THEN probed ELSE statusProp

\* Line 180: run's own probe reads the property as it is now.
RunProbeReads == statusProp

\* Lines 180-194: read the status once and decide whether to go on.
ReadStatus ==
    /\ pc = "status"
    /\ probed' = RunProbeReads
    /\ service_status' = _get_service_status(RunProbeReads)
    /\ IF GetRaises(service_status')
       THEN /\ pc' = "raised"
            /\ escaped' = Raised("AttributeError", <<"line 182">>)
            /\ UNCHANGED <<success, log>>
       ELSE IF GetStatus(service_status') # "running"
       THEN /\ pc' = "finish"
            /\ success' = FALSE
            /\ log' = IF ShowsDialog(is_external_call)
                      THEN log \o NotRunningDialog(service_status')
                      ELSE log
            /\ UNCHANGED escaped
       ELSE /\ pc' = "try"
            /\ UNCHANGED <<success, log, escaped>>
    /\ UNCHANGED <<guardExit, statusProp, sec_elapsed, nSleeps,
                   is_external_call, pathitems, upgrade, exc, wres>>

\* Line 197: pathitems from the request path.
ParsePath ==
    /\ pc = "try"
    /\ \E parts \in SplitResults : pathitems' = ParsePathitems(parts)
    /\ pc' = "firstrun"
    /\ UNCHANGED <<guardExit, statusProp, sec_elapsed, nSleeps,
                   is_external_call, service_status, probed, success, upgrade,
                   exc, escaped, wres, log>>

\* Lines 198-199: on a first run, the upgrade check, which returns
\* (is_first_run_install, cancel_playback) or raises.
CheckUpgrade ==
    /\ pc = "firstrun"
    /\ \/ \* g.IS_ADDON_FIRSTRUN is false
          /\ pc' = "dispatch"
          /\ UNCHANGED <<upgrade, exc, log>>
       \/ \E first \in BOOLEAN, cancel \in BOOLEAN :
            /\ upgrade' = [is_first_run_install |-> first, cancel_playback |-> cancel]
            /\ pc' = IF first THEN "config" ELSE "dispatch"
            /\ log' = Append(log, Ev("check_addon_upgrade", <<PyBool(first), PyBool(cancel)>>))
            /\ exc' = exc
       \/ \E h \in HandlerOutcomes :
            /\ h.res = "raise"
            /\ exc' = h.exc
            /\ pc' = "except"
            /\ log' = Append(log, Ev("check_addon_upgrade", <<"raise", h.exc.kind>>))
            /\ upgrade' = upgrade
    /\ UNCHANGED <<guardExit, statusProp, sec_elapsed, nSleeps,
                   is_external_call, service_status, probed, success,
                   pathitems, escaped, wres>>

\* Lines 200-202: the first-run configuration.
RunConfiguration ==
    /\ pc = "config"
    /\ \E h \in HandlerOutcomes :
         /\ log' = Append(log, Ev("run_addon_configuration", <<h.res, h.exc.kind>>))
         /\ IF h.res = "raise"
            THEN exc' = h.exc /\ pc' = "except"
            ELSE exc' = exc /\ pc' = "dispatch"
    /\ UNCHANGED <<guardExit, statusProp, sec_elapsed, nSleeps,
                   is_external_call, service_status, probed, success,
                   pathitems, upgrade, escaped, wres>>

\* Mutant: run without the migration safeguard.
CancelsPlayback_Never(cancel_playback, items) == FALSE

\* if cancel_playback and g.MODE_PLAY in pathitems[:1]
CancelsPlayback(cancel_playback, items) ==
    cancel_playback /\ InSeq(MODE_PLAY, FirstSlice(items))

\* Lines 203-210: the migration safeguard, else enter route (the wrapper).
Dispatch ==
    /\ pc = "dispatch"
    /\ IF CancelsPlayback(upgrade.cancel_playback, pathitems)
       THEN pc' = "finish" /\ success' = FALSE
       ELSE pc' = "cvc" /\ success' = success
    /\ UNCHANGED <<guardExit, statusProp, sec_elapsed, nSleeps,
                   is_external_call, service_status, probed, pathitems,
                   upgrade, exc, escaped, wres, log>>

(***************************************************************************)
(* Authenticated-Dispatch Wrapper (lazy_login around route)                *)
(***************************************************************************)
\* Mutant: the login is asked for whatever check_credentials() answers.
NeedsLogin_Always(valid) == TRUE

\* if not check_credentials(): ask for a login
NeedsLogin(valid) == ~valid

\* Mutant: _check_valid_credentials without its except clause.
CaughtByCheck_Never(kind) == FALSE

\* except MissingCredentialsError in _check_valid_credentials
CaughtByCheck(kind) == kind = "MissingCredentialsError"

\* except (NotLoggedInError, LoginValidateError), around the check and the
\* first call
CaughtByOuter(kind) == kind \in SessionInvalid

\* except MissingCredentialsError, around the recovery login and the retry
CaughtByInner(kind) == kind = "MissingCredentialsError"

\* Mutant: the wrapper ignores the result of the check.
AfterCheck_AlwaysCalls(valid) == "call"

\* Lines 48-50: after _check_valid_credentials returned `valid`.
AfterCheck(valid) == IF valid THEN "call" ELSE "return False"

\* Mutant: the recovery login always prompts.
AskCredentials_Always(valid) == TRUE

\* login(ask_credentials=not check_credentials())
AskCredentials(valid) == ~valid

\* Mutant: the retry is made whatever the recovery login returned.
AfterRecoveryLogin_AlwaysRetries(logged_in) == "retry"

\* Line 57: if not login(...): return False, else retry.
AfterRecoveryLogin(logged_in) == IF logged_in THEN "retry" ELSE "return False"

\* Mutant: a wrong login ends the check with False.
AfterWrongLogin_GivesUp == "return False"

\* Line 33: a wrong login checks again, return _check_valid_credentials().
AfterWrongLogin == "cvc"

\* login(): True, False (wrong credentials), or an exception.
LoginOutcomes == {"True", "False"} \cup ExcKinds

\* login() calls of _check_valid_credentials that returned False so far.
WrongLogins ==
    Cardinality({i \in 1..Len(log) :
                   log[i] = Ev("login", <<"entry", "default", "False">>)})

\* lazy_login_wrapper returns res to run: success = route(pathitems).
ReturnFromWrapper(res) ==
    /\ wres' = res
    /\ success' = (res = "True")
    /\ pc' = "finish"
    /\ exc' = exc

\* An exception leaves lazy_login_wrapper for run's except clauses.
RaiseFromWrapper(e) ==
    /\ wres' = "raise"
    /\ exc' = e
    /\ pc' = "except"
    /\ success' = success

\* Continue inside the wrapper at `next`.
Continue(next) ==
    IF next = "return False"
    THEN ReturnFromWrapper("False")
    ELSE /\ pc' = next
         /\ UNCHANGED <<wres, success, exc>>

\* Line 28: check_credentials() in _check_valid_credentials.  The stored
\* credentials belong to the collaborators: every check may answer either
\* way, whatever an earlier check answered.
CheckCredentials ==
    /\ pc = "cvc"
    /\ \E valid \in BOOLEAN :
         /\ log' = Append(log, Ev("check_credentials", <<"entry", PyBool(valid)>>))
         /\ IF NeedsLogin(valid)
            THEN Continue("login")
            ELSE Continue(AfterCheck(TRUE))
    /\ UNCHANGED <<guardExit, statusProp, sec_elapsed, nSleeps,
                   is_external_call, service_status, probed, pathitems,
                   upgrade, escaped>>

\* Lines 31-36: the interactive login of _check_valid_credentials.  A wrong
\* login recurses into the check.
EntryLogin ==
    /\ pc = "login"
    /\ \E o \in LoginOutcomes :
         /\ o = "False" => WrongLogins < MaxWrongLogins
         /\ log' = Append(log, Ev("login", <<"entry", "default", o>>))
         /\ IF o = "True" THEN Continue(AfterCheck(TRUE))
            ELSE IF o = "False" THEN Continue(AfterWrongLogin)
            ELSE IF CaughtByCheck(o) THEN Continue(AfterCheck(FALSE))
            ELSE IF CaughtByOuter(o) THEN Continue("recover")
            ELSE RaiseFromWrapper(Raised(o, <<"raised by collaborator">>))
    /\ UNCHANGED <<guardExit, statusProp, sec_elapsed, nSleeps, is_external_call,
                   service_status, probed, pathitems, upgrade, escaped>>

\* The events of one call of the wrapped function with result r.
CallEvents(site, r) ==
    <<Ev("call", <<site>>)>> \o r.events \o <<Ev("call_end", <<site, r.res, r.exc.kind>>)>>

\* Line 50: return func(*args, **kwargs)
FirstCall ==
    /\ pc = "call"
    /\ \E r \in route(pathitems) :
         /\ log' = log \o CallEvents("first", r)
         /\ IF r.res # "raise" THEN ReturnFromWrapper(r.res)
            ELSE IF CaughtByOuter(r.exc.kind) THEN Continue("recover")
            ELSE RaiseFromWrapper(r.exc)
    /\ UNCHANGED <<guardExit, statusProp, sec_elapsed, nSleeps, is_external_call,
                   service_status, probed, pathitems, upgrade, escaped>>

\* Line 56: the recovery login, asking for credentials only if none valid
\* are stored.
RecoveryLogin ==
    /\ pc = "recover"
    /\ \E valid \in BOOLEAN, o \in LoginOutcomes :
         /\ log' = log \o <<Ev("check_credentials", <<"recovery", PyBool(valid)>>),
                            Ev("login", <<"recovery", PyBool(AskCredentials(valid)), o>>)>>
         /\ IF o \in {"True", "False"} THEN Continue(AfterRecoveryLogin(o = "True"))
            ELSE IF CaughtByInner(o) THEN Continue("return False")
            ELSE RaiseFromWrapper(Raised(o, <<"raised by collaborator">>))
    /\ UNCHANGED <<guardExit, statusProp, sec_elapsed, nSleeps, is_external_call,
                   service_status, probed, pathitems, upgrade, escaped>>

\* Line 59: the retry, return func(*args, **kwargs)
RetryCall ==
    /\ pc = "retry"
    /\ \E r \in route(pathitems) :
         /\ log' = log \o CallEvents("retry", r)
         /\ IF r.res # "raise" THEN ReturnFromWrapper(r.res)
            ELSE IF CaughtByInner(r.exc.kind) THEN Continue("return False")
            ELSE RaiseFromWrapper(r.exc)
    /\ UNCHANGED <<guardExit, statusProp, sec_elapsed, nSleeps, is_external_call,
                   service_status, probed, pathitems, upgrade, escaped>>

(***************************************************************************)
(* Run-loop Controller: the except clauses and the end                     *)
(***************************************************************************)
\* Mutant: run with the last except clause only.
ExceptClause_GenericOnly(e) ==
    <<Ev("error", <<"traceback">>),
      Ev("show_addon_error_info", <<e.kind>> \o e.msg)>>

\* Lines 211-240: the calls the matching except clause makes.
ExceptClause(e) ==
    IF e.kind = "BackendNotReady"
    THEN <<Ev("show_backend_not_ready", e.msg)>>
    ELSE IF e.kind = "InputStreamHelperError"
    THEN <<Ev("show_ok_dialog", <<"InputStream Helper Add-on error">> \o e.msg)>>
    ELSE IF e.kind = "HttpError401"
    THEN <<Ev("show_ok_dialog", <<"30105", "There was a communication problem with Netflix.">>)>>
    ELSE IF e.kind \in MembershipStatus
    THEN <<Ev("show_error_info", <<"30008", "30180", "False", "True">>)>>
    ELSE <<Ev("error", <<"traceback">>),
           Ev("show_addon_error_info", <<e.kind>> \o e.msg)>>

HandleException ==
    /\ pc = "except"
    /\ log' = log \o ExceptClause(exc)
    /\ success' = FALSE
    /\ pc' = "finish"
    /\ UNCHANGED <<guardExit, statusProp, sec_elapsed, nSleeps,
                   is_external_call, service_status, probed, pathitems,
                   upgrade, exc, escaped, wres>>

\* Mutant: endOfDirectory(succeeded=False) without the test of success.
SignalsEnd_Always(ok) == TRUE

\* if not success: endOfDirectory(handle=g.PLUGIN_HANDLE, succeeded=False)
SignalsEnd(ok) == ~ok

\* Lines 242-245.
Finish ==
    /\ pc = "finish"
    /\ log' = log \o (IF SignalsEnd(success)
                      THEN <<Ev("endOfDirectory", <<"False">>)>>
                      ELSE <<>>)
                  \o <<Ev("log_time_trace", <<>>)>>
    /\ pc' = "done"
    /\ UNCHANGED <<guardExit, statusProp, sec_elapsed, nSleeps,
                   is_external_call, service_status, probed, success,
                   pathitems, upgrade, exc, escaped, wres>>

Next ==
    \/ ServiceWrite
    \/ CheckExternal
    \/ GuardPoll
    \/ GuardReturn
    \/ ReadStatus
    \/ ParsePath
    \/ CheckUpgrade
    \/ RunConfiguration
    \/ Dispatch
    \/ CheckCredentials
    \/ EntryLogin
    \/ FirstCall
    \/ RecoveryLogin
    \/ RetryCall
    \/ HandleException
    \/ Finish

Spec == Init /\ [][Next]_vars

\* The interpreter goes on with the entry check once it is in it, and a
\* login() call that was made comes back (by returning or by raising).
FairSpec == Spec /\ WF_vars(CheckCredentials) /\ WF_vars(EntryLogin)

(***************************************************************************)
(* Reading the log                                                         *)
(***************************************************************************)
Idx(e) == {i \in 1..Len(log) : log[i].e = e}

Count(e) == Cardinality(Idx(e))

\* Calls of the wrapped function, by call site.
CallsAt(site) == {i \in Idx("call") : log[i].a = <<site>>}

\* login() calls, by call site.
LoginsAt(site) == {i \in Idx("login") : log[i].a[1] = site}

LoginReturned(i) == log[i].a[3]

\* Calls of the wrapped function that ended with a session-invalid failure.
SessionFailures(site) ==
    {i \in Idx("call_end") : log[i].a[1] = site /\ log[i].a[3] \in SessionInvalid}

\* Events that enter a handler: the two players, and a navigation handler's
\* constructor and member.
HandlerEvents == {"play", "play_strm", "instantiate", "invoke"}

HandlerIdx == {i \in 1..Len(log) : log[i].e \in HandlerEvents}

\* A stored-credentials check of the entry that answered valid, or a login
\* that returned success.
IsAuthOk(ev) ==
    \/ ev = Ev("check_credentials", <<"entry", "True">>)
    \/ ev.e = "login" /\ ev.a[3] = "True"

\* The first check_credentials() of the invocation answered valid.
ValidAtEntry ==
    /\ Idx("check_credentials") # {}
    /\ \A i \in Idx("check_credentials") :
         (\A j \in Idx("check_credentials") : i <= j)
            => log[i] = Ev("check_credentials", <<"entry", "True">>)

WrapperEnded == wres # "none"

(***************************************************************************)
(* C1: every call of the wrapped function, and every entry into a handler, *)
(* is preceded in the same invocation by an entry credentials check that   *)
(* answered valid or by a login call that returned success.                *)
(***************************************************************************)
C1_CallPrecededByAuth ==
    \A i \in Idx("call") \cup HandlerIdx :
       \E j \in 1..(i - 1) : IsAuthOk(log[j])

\* A retry reached a handler member after an entry prompt and a recovery
\* login.
C1_Witness ==
    /\ ~ValidAtEntry
    /\ CallsAt("retry") # {}
    /\ \E i \in Idx("invoke") : \E j \in CallsAt("retry") : j < i

(***************************************************************************)
(* C2 as stated: whenever the wrapped call failed with SessionInvalid      *)
(* exactly once, that failure is followed by exactly one recovery login    *)
(* and exactly one retry; a SessionInvalid failure of the retry leaves the *)
(* wrapper uncaught and unchanged, with no login or call after it.         *)
(***************************************************************************)
RetryFailurePropagates ==
    \A i \in SessionFailures("retry") :
       /\ wres = "raise"
       /\ exc = Raised(log[i].a[3], <<"raised by collaborator">>)
       /\ pc \in {"except", "finish", "done"}
       /\ \A j \in Idx("login") \cup Idx("call") \cup Idx("check_credentials") : j < i

C2_Original ==
    /\ (WrapperEnded /\ Cardinality(SessionFailures("first") \cup SessionFailures("retry")) = 1)
          => \A i \in SessionFailures("first") \cup SessionFailures("retry") :
               /\ Cardinality({j \in LoginsAt("recovery") : j > i}) = 1
               /\ Cardinality({j \in Idx("call") : j > i}) = 1
    /\ RetryFailurePropagates

(***************************************************************************)
(* C2 amended: when the call of the wrapped function made after the entry  *)
(* check fails with SessionInvalid, exactly one recovery login follows;    *)
(* the wrapped function is retried exactly once if that login returned     *)
(* success and not at all otherwise (the wrapper then returns false, or    *)
(* the login's own exception propagates); a SessionInvalid failure of the  *)
(* retry is not caught, no further login or retry happens, and it reaches  *)
(* the top-level controller unchanged.                                     *)
(***************************************************************************)
C2_OneRecoveryOneRetry ==
    /\ Cardinality(LoginsAt("recovery")) <= 1
    /\ Cardinality(CallsAt("first")) <= 1
    /\ Cardinality(CallsAt("retry")) <= 1
    /\ (WrapperEnded /\ SessionFailures("first") # {}) =>
          /\ Cardinality(LoginsAt("recovery")) = 1
          /\ \A l \in LoginsAt("recovery") :
               /\ \A i \in SessionFailures("first") : i < l
               /\ LoginReturned(l) = "True" =>
                     /\ Cardinality(CallsAt("retry")) = 1
                     /\ \A c \in CallsAt("retry") : l < c
               /\ LoginReturned(l) # "True" => CallsAt("retry") = {}
               /\ LoginReturned(l) \in {"False", "MissingCredentialsError"} => wres = "False"
    /\ RetryFailurePropagates

\* Both the first call and the retry failed with SessionInvalid.
C2_Witness ==
    /\ SessionFailures("first") # {}
    /\ SessionFailures("retry") # {}
    /\ pc = "done"

(***************************************************************************)
(* C3 as stated: with stored credentials valid at entry the wrapper calls  *)
(* the wrapped function exactly once and makes no login call, whatever the *)
(* wrapped function does.                                                  *)
(***************************************************************************)
C3_Original ==
    (WrapperEnded /\ ValidAtEntry) => (Count("call") = 1 /\ Count("login") = 0)

(***************************************************************************)
(* C3 amended: with stored credentials valid at entry the wrapper makes no *)
(* login call or prompt before it calls the wrapped function, and unless   *)
(* that call fails with SessionInvalid it calls the wrapped function       *)
(* exactly once and makes no login call at all; after a SessionInvalid     *)
(* failure there is exactly one recovery login and at most one retry.      *)
(***************************************************************************)
C3_ValidEntryCallsThrough ==
    ValidAtEntry =>
       /\ LoginsAt("entry") = {}
       /\ \A l \in Idx("login") : \E c \in CallsAt("first") : c < l
       /\ pc # "login"
       /\ Count("call") <= 2
       /\ Count("login") <= 1
       /\ WrapperEnded =>
             /\ Cardinality(CallsAt("first")) = 1
             /\ SessionFailures("first") = {} => (Count("call") = 1 /\ Count("login") = 0)
             /\ SessionFailures("first") # {} => Count("login") = 1

\* Valid at entry, the wrapped function returned, nothing else happened.
C3_Witness ==
    /\ ValidAtEntry
    /\ wres = "True"
    /\ Count("call") = 1
    /\ Count("login") = 0

(***************************************************************************)
(* C4: if stored credentials are not valid at entry and the interactive    *)
(* login is aborted or left empty (MissingCredentialsError), the wrapper   *)
(* returns false, no exception escapes it, and the wrapped function is     *)
(* never called in that invocation.                                        *)
(***************************************************************************)
EntryLoginAborted ==
    \E i \in LoginsAt("entry") : LoginReturned(i) = "MissingCredentialsError"

C4_AbortedLoginReturnsFalse ==
    EntryLoginAborted =>
       /\ ~ValidAtEntry
       /\ wres = "False"
       /\ ~success
       /\ exc = NoExc
       /\ escaped = NoExc
       /\ Count("call") = 0
       /\ HandlerIdx = {}
       /\ pc \in {"finish", "done"}

\* The user gave wrong credentials once, then cancelled the next prompt.
C4_Witness ==
    /\ EntryLoginAborted
    /\ \E i \in LoginsAt("entry") : LoginReturned(i) = "False"
    /\ pc = "done"

(***************************************************************************)
(* C5 as stated: every invocation of run signals end-of-results exactly    *)
(* once before it returns, with the succeeded flag equal to the overall    *)
(* success flag, and flushes the timing diagnostics.                       *)
(***************************************************************************)
C5_Original ==
    pc = "done" =>
       /\ Count("endOfDirectory") = 1
       /\ \A i \in Idx("endOfDirectory") : log[i].a = <<PyBool(success)>>
       /\ Count("log_time_trace") = 1

(***************************************************************************)
(* C5 amended: every invocation of run that returns with overall failure   *)
(* signals end-of-results exactly once before it returns, with succeeded   *)
(* false; an invocation that returns with overall success sends no         *)
(* end-of-results signal from run; in both cases the timing diagnostics    *)
(* are flushed once, as the last step.                                     *)
(***************************************************************************)
C5_EndSignalOnFailureOnly ==
    /\ pc # "done" => (Count("endOfDirectory") = 0 /\ Count("log_time_trace") = 0)
    /\ pc = "done" =>
          /\ Count("log_time_trace") = 1
          /\ log[Len(log)].e = "log_time_trace"
          /\ success => Count("endOfDirectory") = 0
          /\ ~success =>
                /\ Count("endOfDirectory") = 1
                /\ log[Len(log) - 1] = Ev("endOfDirectory", <<"False">>)

\* A failed invocation after an exception, with its end-of-results signal.
C5_Witness ==
    /\ pc = "done"
    /\ ~success
    /\ exc # NoExc
    /\ Count("endOfDirectory") = 1

(***************************************************************************)
(* C6: no error escapes run: whatever is raised while run reads the        *)
(* status, checks the migration, configures the first run or dispatches,   *)
(* run catches it, sets overall failure and returns normally.              *)
(***************************************************************************)
C6_NoErrorEscapesRun ==
    /\ escaped = NoExc
    /\ pc # "raised"
    /\ (pc = "done" /\ exc # NoExc) => ~success

(***************************************************************************)
(* C7: for every value of the status property that is absent, empty, not   *)
(* parseable, or parseable but not an object with a status field, the      *)
(* probe returns a mapping with no status, and the callers' reading of the *)
(* status field (guard loop and run) never raises.                         *)
(***************************************************************************)
WellFormedStatus ==
    {"{\"status\":\"running\"}", "{\"status\":\"error\",\"message\":\"X\"}",
     "{\"status\":\"starting\"}"}

C7_ProbeEmptyCallersNeverRaise ==
    /\ probed \notin WellFormedStatus =>
          /\ _get_service_status(probed).t = "dict"
          /\ GetStatus(_get_service_status(probed)) = "None"
    /\ escaped.kind # "AttributeError"

(***************************************************************************)
(* C8: the guard's wait loop performs at most limit_sec / 0.5 = 20         *)
(* abort-aware sleeps, so that its accumulated wait (half a second per     *)
(* sleep) never exceeds the limit plus one poll interval, and it exits     *)
(* without raising.                                                        *)
(***************************************************************************)
GuardBounded ==
    /\ nSleeps <= LimitTicks
    /\ sec_elapsed <= LimitTicks

GuardNeverRaises == escaped # Raised("AttributeError", <<"line 153">>)

C8_GuardTerminatesWithoutRaising == GuardBounded /\ GuardNeverRaises

(***************************************************************************)
(* C9: for every path whose root segment is not play, play_strm,           *)
(* directory, action, library, hub or extrafanart, a call of route enters  *)
(* no handler and fails with InvalidPathError whose message ends with all  *)
(* the path's segments joined with '/'; the wrapper lets it through to     *)
(* run.                                                                    *)
(***************************************************************************)
RecognizedRoots ==
    {MODE_PLAY, MODE_PLAY_STRM, MODE_DIRECTORY, MODE_ACTION, MODE_LIBRARY,
     MODE_HUB, "extrafanart"}

\* msg is `prefix` followed by the segments of items with a '/' between
\* each two of them.
NamesSegments(msg, prefix, items) ==
    /\ Len(msg) = (IF Len(items) = 0 THEN 1 ELSE 2 * Len(items))
    /\ msg[1] = prefix
    /\ \A i \in 1..Len(items) : msg[2 * i] = items[i]
    /\ \A i \in 1..(Len(items) - 1) : msg[2 * i + 1] = "/"

C9_UnknownRootIsInvalidPath ==
    (Len(pathitems) > 0 /\ pathitems[1] \notin RecognizedRoots /\ Count("call") > 0) =>
       /\ HandlerIdx = {}
       /\ Count("getattr") = 0
       /\ Count("call") = 1
       /\ wres = "raise"
       /\ exc.kind = "InvalidPathError"
       /\ NamesSegments(exc.msg, "No root handler for path ", pathitems)
       /\ \A i \in Idx("call_end") : log[i].a[2] = "raise" /\ log[i].a[3] = "InvalidPathError"

\* route was called with the two-segment path foo/export.
C9_Witness ==
    /\ pathitems = <<"foo", "export">>
    /\ Count("call") = 1
    /\ pc = "done"

(***************************************************************************)
(* C10 as stated: when the root resolves to a navigation handler and the   *)
(* instantiated handler has no member named by the second segment, routing *)
(* fails with InvalidPathError whose message names the path including its  *)
(* root segment, and no handler member is invoked.                         *)
(***************************************************************************)
MemberMissing ==
    \E i \in Idx("getattr") : log[i].a[3] = "AttributeError"

LastCall == CHOOSE c \in Idx("call") : \A d \in Idx("call") : d <= c

C10_Original ==
    (MemberMissing /\ Len(pathitems) >= 2) =>
       /\ exc.kind = "InvalidPathError"
       /\ NamesSegments(exc.msg, "Unknown action ", pathitems)
       /\ \A i \in Idx("invoke") : i < LastCall

(***************************************************************************)
(* C10 amended: when the root resolves to a navigation handler and the     *)
(* instantiated handler has no member named by the second segment (or no   *)
(* member root when there is no second segment), routing fails with        *)
(* InvalidPathError whose message is 'Unknown action ' followed by the     *)
(* segments after the root joined with '/', without the root segment (for  *)
(* "library/export": "Unknown action export"), and no handler member is    *)
(* invoked.                                                                *)
(***************************************************************************)
C10_MissingMemberNamesSubPath ==
    MemberMissing =>
       /\ wres = "raise"
       /\ exc.kind = "InvalidPathError"
       /\ Len(pathitems) > 0 =>
             NamesSegments(exc.msg, "Unknown action ",
                           [i \in 1..(Len(pathitems) - 1) |-> pathitems[i + 1]])
       /\ Len(pathitems) = 0 => exc.msg = <<"Unknown action ">>
       /\ \A i \in Idx("getattr") :
             log[i].a[3] = "AttributeError" =>
                /\ log[i].a[2] = (IF Len(pathitems) >= 2 THEN pathitems[2] ELSE "root")
                /\ LastCall < i
                /\ log[i + 1].e = "call_end"
                /\ log[i + 1].a[2] = "raise"
                /\ log[i + 1].a[3] = "InvalidPathError"
       /\ \A i \in Idx("invoke") : i < LastCall

\* library/export on a handler without a member export.
C10_Witness ==
    /\ pathitems = <<MODE_LIBRARY, "export">>
    /\ MemberMissing
    /\ exc.msg = <<"Unknown action ", "export">>
    /\ pc = "done"

(***************************************************************************)
(* C11: for every path whose root segment is 'extrafanart', whatever the   *)
(* remaining segments, a call of route returns false without raising, and  *)
(* it neither resolves a handler class, nor instantiates one, nor looks up *)
(* or invokes a handler; the wrapper hands the false to run.               *)
(***************************************************************************)
IgnoredPath == Len(pathitems) > 0 /\ pathitems[1] = "extrafanart"

C11_IgnoredRootReturnsFalse ==
    (IgnoredPath /\ Count("call") > 0) =>
       /\ Count("_get_nav_handler") = 0
       /\ HandlerIdx = {}
       /\ Count("getattr") = 0
       /\ Count("call") = 1
       /\ \A i \in Idx("call_end") : log[i].a[2] = "False" /\ log[i].a[3] = "none"
       /\ wres = "False"
       /\ exc = NoExc
       /\ ~success

\* route was called with extrafanart/export and run has returned.
C11_Witness ==
    /\ pathitems = <<"extrafanart", "export">>
    /\ Count("call") = 1
    /\ Count("warn") = 1
    /\ pc = "done"

(***************************************************************************)
(* C12: whenever the status run read is not running and the call is not    *)
(* external, run shows exactly one dialog (for status error the error      *)
(* dialog carrying the status message, for any other status the not-ready  *)
(* notice), makes no migration check, no login and no routing, ends with   *)
(* overall failure and signals end-of-results with succeeded false.        *)
(***************************************************************************)
DialogEvents ==
    {"show_error_info", "show_backend_not_ready", "show_ok_dialog",
     "show_addon_error_info"}

DialogIdx == {i \in 1..Len(log) : log[i].e \in DialogEvents}

\* run went past line 182 and the status it read there is not 'running'.
ReadNotRunning ==
    /\ pc \in {"finish", "done"}
    /\ GetStatus(service_status) # "running"

\* Nothing of the try block of lines 195-210 was executed.
NothingDispatched ==
    /\ Count("check_addon_upgrade") = 0
    /\ Count("run_addon_configuration") = 0
    /\ Count("check_credentials") = 0
    /\ Count("login") = 0
    /\ Count("call") = 0
    /\ Count("_get_nav_handler") = 0
    /\ HandlerIdx = {}
    /\ wres = "none"

\* run's last two calls are the failure signal and the timing flush.
EndsWithFailureSignal ==
    /\ Count("endOfDirectory") = 1
    /\ Len(log) >= 2
    /\ log[Len(log) - 1] = Ev("endOfDirectory", <<"False">>)
    /\ log[Len(log)] = Ev("log_time_trace", <<>>)

C12_NotRunningShowsOneDialog ==
    (ReadNotRunning /\ ~is_external_call) =>
       /\ Cardinality(DialogIdx) = 1
       /\ DialogIdx = {1}
       /\ GetStatus(service_status) = "error" =>
             /\ log[1].e = "show_error_info"
             /\ log[1].a[3] = GetMessage(service_status)
       /\ GetStatus(service_status) # "error" =>
             log[1] = Ev("show_backend_not_ready", <<>>)
       /\ NothingDispatched
       /\ ~success
       /\ pc = "done" => EndsWithFailureSignal /\ Len(log) = 3

\* The status {"status":"error","message":"X"} on a call that is not
\* external: the error dialog with X, then the failure signal.
C12_Witness ==
    /\ pc = "done"
    /\ ~is_external_call
    /\ probed = "{\"status\":\"error\",\"message\":\"X\"}"
    /\ log[1] = Ev("show_error_info", <<"30105", "30240", "X", "False", "False">>)
    /\ Count("endOfDirectory") = 1

(***************************************************************************)
(* C13 as stated: on a first-run invocation with the service running, the  *)
(* migration check runs before any routing; if it reports cancel-playback  *)
(* and the path's root segment is the play root, run ends with result      *)
(* false without calling the wrapper, any login or any handler; in every   *)
(* other case route is invoked after the migration check.                  *)
(***************************************************************************)
UpgradeIdx == Idx("check_addon_upgrade")

\* Everything the wrapper and route do.
RoutingEvents ==
    {"check_credentials", "login", "call", "_get_nav_handler", "getattr"}
       \cup HandlerEvents

RoutingIdx == {i \in 1..Len(log) : log[i].e \in RoutingEvents}

UpgradeReturned == \E i \in UpgradeIdx : log[i].a[1] # "raise"

CancelReported ==
    \E i \in UpgradeIdx : log[i].a[1] # "raise" /\ log[i].a[2] = "True"

ConfigurationRaised ==
    \E i \in Idx("run_addon_configuration") : log[i].a[1] = "raise"

PlayRequest == Len(pathitems) > 0 /\ pathitems[1] = MODE_PLAY

RouteInvoked == Count("check_credentials") >= 1

MigrationFirst ==
    LET routing == RoutingIdx
    IN  /\ Cardinality(UpgradeIdx) = 1
        /\ \A i \in UpgradeIdx \cup Idx("run_addon_configuration") :
              \A j \in routing : i < j

SafeguardShortCircuits ==
    (CancelReported /\ PlayRequest) =>
       /\ RoutingIdx = {}
       /\ wres = "none"
       /\ pc \in {"finish", "done"} => ~success
       /\ pc = "done" => EndsWithFailureSignal

C13_Original ==
    UpgradeIdx # {} =>
       /\ MigrationFirst
       /\ SafeguardShortCircuits
       /\ (pc \in {"finish", "done"} /\ ~(CancelReported /\ PlayRequest)) => RouteInvoked

(***************************************************************************)
(* C13 amended: on a first-run invocation with the service running, the    *)
(* migration check runs before any routing; if it reports cancel-playback  *)
(* and the path's root segment is the play root, run ends with result      *)
(* false without calling the wrapper, any login or any handler; in every   *)
(* other case in which the migration check and the first-run configuration *)
(* return, route is invoked after them; when either of them raises, route  *)
(* is not invoked and run handles the exception.                           *)
(***************************************************************************)
C13_MigrationBeforeRouting ==
    UpgradeIdx # {} =>
       /\ MigrationFirst
       /\ SafeguardShortCircuits
       /\ (/\ pc \in {"finish", "done"}
           /\ UpgradeReturned
           /\ ~ConfigurationRaised
           /\ ~(CancelReported /\ PlayRequest)) => RouteInvoked
       /\ (~UpgradeReturned \/ ConfigurationRaised) =>
             /\ RoutingIdx = {}
             /\ pc \in {"finish", "done"} => ~success /\ exc # NoExc

\* play/70211656 on a first run whose migration check reported
\* cancel-playback: run returned without entering the wrapper.
C13_Witness ==
    /\ pc = "done"
    /\ pathitems = <<MODE_PLAY, "70211656">>
    /\ CancelReported
    /\ Count("check_credentials") = 0
    /\ Count("endOfDirectory") = 1

(***************************************************************************)
(* C14 as stated: with a valid session, for every path whose root is       *)
(* recognized and whose action member exists, route invokes exactly one    *)
(* handler exactly once and returns true: the play root calls the playback *)
(* handler with the segments after the root, the legacy play root calls    *)
(* the legacy playback handler likewise, and an empty path or a            *)
(* directory, action, library or hub root calls, on a fresh instance of    *)
(* the matching handler type, the member named by the second segment, or   *)
(* the member root when there is no second segment.                        *)
(***************************************************************************)
\* The end of the call of the wrapped function that starts at log[c].
CallEnd(c) ==
    CHOOSE e \in Idx("call_end") :
       e > c /\ \A f \in Idx("call_end") : f > c => e <= f

\* What that call did, in order.
Body(c) == SubSeq(log, c + 1, CallEnd(c) - 1)

RootOfPath == IF Len(pathitems) > 0 THEN pathitems[1] ELSE MODE_DIRECTORY

\* The segments after the root.
SubPath == [i \in 1..(Len(pathitems) - 1) |-> pathitems[i + 1]]

SecondOrRoot == IF Len(pathitems) >= 2 THEN pathitems[2] ELSE "root"

HandlerTypeOf(root) ==
    CASE root = MODE_DIRECTORY -> "Directory"
      [] root = MODE_ACTION -> "AddonActionExecutor"
      [] root = MODE_LIBRARY -> "LibraryActionExecutor"
      [] root = MODE_HUB -> "HubBrowser"
      [] OTHER -> "no handler type"

NavRoots == {MODE_DIRECTORY, MODE_ACTION, MODE_LIBRARY, MODE_HUB}

MemberFound(body) ==
    \E k \in 1..Len(body) : body[k].e = "getattr" /\ body[k].a[3] = "found"

\* A call of route that did `body` is one the claim is about.
RoutesToHandler(body) ==
    \/ RootOfPath \in {MODE_PLAY, MODE_PLAY_STRM}
    \/ RootOfPath \in NavRoots /\ MemberFound(body)

\* The call made exactly the calls the claim lists, the last one into the
\* handler.
InvokesTheHandler(body) ==
    LET type == HandlerTypeOf(RootOfPath)
        n    == Len(body)
    IN  /\ n >= 2
        /\ body[n].e = "handler_end"
        /\ Cardinality({k \in 1..n : body[k].e \in {"play", "play_strm", "invoke"}}) = 1
        /\ Cardinality({k \in 1..n : body[k].e = "instantiate"}) =
              (IF RootOfPath \in NavRoots THEN 1 ELSE 0)
        /\ RootOfPath = MODE_PLAY => n = 2 /\ body[1] = Ev("play", SubPath)
        /\ RootOfPath = MODE_PLAY_STRM => n = 2 /\ body[1] = Ev("play_strm", SubPath)
        /\ RootOfPath \in NavRoots =>
              /\ n = 5
              /\ body[1] = Ev("_get_nav_handler", <<RootOfPath>>)
              /\ body[2] = Ev("instantiate", <<type>>)
              /\ body[3] = Ev("getattr", <<type, SecondOrRoot, "found">>)
              /\ body[4] = Ev("invoke", <<type, SecondOrRoot>> \o SubPath)

\* How the handler of a call that did `body` ended: <<return or raise, kind>>.
HandlerResult(body) == body[Len(body)].a

C14_Original ==
    \A c \in Idx("call") :
       LET body == Body(c)
       IN  (RoutesToHandler(body) /\ HandlerResult(body)[2] \notin SessionInvalid) =>
              /\ InvokesTheHandler(body)
              /\ log[CallEnd(c)].a = <<log[c].a[1], "True", "none">>

(***************************************************************************)
(* C14 amended: with a valid session, for every path whose root is play,   *)
(* play_strm, directory, action, library or hub (or the path is empty) and *)
(* whose action member exists, route invokes exactly one handler exactly   *)
(* once, with the arguments the claim lists, and returns true when that    *)
(* handler returns; when the handler raises, route returns nothing and the *)
(* handler's exception leaves route unchanged.                             *)
(***************************************************************************)
C14_OneHandlerTrueIfItReturns ==
    \A c \in Idx("call") :
       LET body == Body(c)
           end  == log[c + Len(body) + 1].a
       IN  RoutesToHandler(body) =>
              /\ InvokesTheHandler(body)
              /\ HandlerResult(body)[1] = "return" => end = <<log[c].a[1], "True", "none">>
              /\ HandlerResult(body)[1] = "raise" =>
                    end = <<log[c].a[1], "raise", HandlerResult(body)[2]>>

\* play/70211656 with valid stored credentials: the playback handler got
\* ["70211656"] and route returned true.
C14_Witness ==
    /\ pc = "done"
    /\ pathitems = <<MODE_PLAY, "70211656">>
    /\ ValidAtEntry
    /\ Count("play") = 1
    /\ \E i \in Idx("play") : log[i].a = <<"70211656">>
    /\ wres = "True"
    /\ success

(***************************************************************************)
(* C15: a MissingCredentialsError arising at any point of the wrapper's    *)
(* execution (entry check, first call of the wrapped function, recovery    *)
(* login, retried call) is swallowed inside the wrapper, which returns     *)
(* false; it never propagates to run.                                      *)
(***************************************************************************)
\* login() calls that raised MissingCredentialsError.
LoginsCancelled ==
    {i \in Idx("login") : LoginReturned(i) = "MissingCredentialsError"}

\* Calls of the wrapped function that raised MissingCredentialsError.
CallsCancelled(site) ==
    {i \in Idx("call_end") :
        log[i].a = <<site, "raise", "MissingCredentialsError">>}

SwallowedAtLoginsAndRetry ==
    (LoginsCancelled \cup CallsCancelled("retry") # {}) =>
       /\ wres = "False"
       /\ exc = NoExc

SwallowedAtFirstCall ==
    CallsCancelled("first") # {} =>
       /\ wres = "False"
       /\ exc = NoExc

C15_MissingCredentialsSwallowed ==
    /\ SwallowedAtLoginsAndRetry
    /\ SwallowedAtFirstCall
    /\ wres = "raise" => exc.kind # "MissingCredentialsError"

(***************************************************************************)
(* C16: whenever the invocation is classified external and the status run  *)
(* read after the guard returned is not running, run shows no dialog at    *)
(* all, makes no migration check, no login and no routing, and still ends  *)
(* with overall failure and an end-of-results signal with succeeded false. *)
(***************************************************************************)
C16_ExternalNotRunningIsSilent ==
    (ReadNotRunning /\ is_external_call) =>
       /\ DialogIdx = {}
       /\ NothingDispatched
       /\ ~success
       /\ pc = "finish" => log = <<>>
       /\ pc = "done" =>
             log = <<Ev("endOfDirectory", <<"False">>), Ev("log_time_trace", <<>>)>>

\* An external call whose guard gave up waiting, and whose later read found
\* the status error: run returned with the failure signal and no dialog.
C16_Witness ==
    /\ pc = "done"
    /\ is_external_call
    /\ guardExit = "gave up"
    /\ GetStatus(service_status) = "error"
    /\ Count("endOfDirectory") = 1
    /\ DialogIdx = {}

(***************************************************************************)
(* C17: for every failure raised out of the migration check, the first-run *)
(* configuration or the authenticated dispatch, run shows exactly one      *)
(* dialog, chosen by the failure's kind: BackendNotReady gives the         *)
(* not-ready dialog with the detail, InputStreamHelperError the helper     *)
(* dialog, HttpError401 the communication-problem dialog, never-member and *)
(* former-member the account-status dialog with the exit flag set, and     *)
(* anything else (InvalidPathError and a second session-invalid error      *)
(* included) the generic add-on-error dialog, after the trace was logged;  *)
(* every branch sets overall failure.                                      *)
(***************************************************************************)
\* run has handled the exception exc in one of its except clauses.
Handled == exc # NoExc /\ pc \in {"finish", "done"}

\* The dialog log[d] is the one of the except clause that matches exc.
DialogMatchesKind(d) ==
    CASE exc.kind = "BackendNotReady" ->
           log[d].e = "show_backend_not_ready" /\ log[d].a = exc.msg
      [] exc.kind = "InputStreamHelperError" ->
           /\ log[d].e = "show_ok_dialog"
           /\ log[d].a = <<"InputStream Helper Add-on error">> \o exc.msg
           /\ Count("error") = 0
      [] exc.kind = "HttpError401" ->
           /\ log[d].e = "show_ok_dialog"
           /\ log[d].a[2] = "There was a communication problem with Netflix."
           /\ Count("error") = 0
      [] exc.kind \in {"MbrStatusNeverMemberError", "MbrStatusFormerMemberError"} ->
           /\ log[d].e = "show_error_info"
           /\ log[d].a = <<"30008", "30180", "False", "True">>
           /\ Count("error") = 0
      [] OTHER ->
           /\ log[d].e = "show_addon_error_info"
           /\ log[d].a[1] = exc.kind
           /\ d > 1
           /\ log[d - 1] = Ev("error", <<"traceback">>)
           /\ Count("error") = 1

C17_OneDialogByKind ==
    Handled =>
       LET dialogs == DialogIdx
       IN  /\ Cardinality(dialogs) = 1
           /\ \A d \in dialogs :
                 /\ DialogMatchesKind(d)
                 /\ \A j \in 1..Len(log) :
                       log[j].e \in RoutingEvents \cup {"check_addon_upgrade"} => j < d
           /\ ~success
           /\ pc = "done" => EndsWithFailureSignal

\* A second session-invalid failure, raised by the retried call, got the
\* generic dialog.
C17_Witness ==
    /\ pc = "done"
    /\ exc.kind \in SessionInvalid
    /\ SessionFailures("retry") # {}
    /\ Count("show_addon_error_info") = 1
    /\ Count("endOfDirectory") = 1

(***************************************************************************)
(* C18 as stated: in the entry credentials check, each wrong-credentials   *)
(* rejection of the interactive login is followed by another check and,    *)
(* while stored credentials are still invalid, by another prompt; the      *)
(* check ends exactly when stored credentials are found valid or a login   *)
(* succeeds (result true), or the user cancels or leaves the input empty   *)
(* (result false, at once, without a further prompt).                      *)
(***************************************************************************)
\* The steps of _check_valid_credentials: its checks and its logins.
EntryIdx ==
    {i \in Idx("check_credentials") \cup Idx("login") : log[i].a[1] = "entry"}

LastEntry == CHOOSE i \in EntryIdx : \A j \in EntryIdx : j <= i

\* The check was entered and control has left it.
CheckEnded == EntryIdx # {} /\ pc \notin {"cvc", "login"}

EntryCheckValid(i) == log[i] = Ev("check_credentials", <<"entry", "True">>)

EntryCheckInvalid(i) == log[i] = Ev("check_credentials", <<"entry", "False">>)

EntryLoginGave(i, o) == log[i] = Ev("login", <<"entry", "default", o>>)

EntryLoginRaised(i) ==
    /\ log[i].e = "login"
    /\ log[i].a[1] = "entry"
    /\ log[i].a[3] \in ExcKinds \ {"MissingCredentialsError"}

\* After run's step i nothing but the end of run follows.
OnlyTheEndAfter(i) ==
    \A j \in (i + 1)..Len(log) : log[j].e \in {"endOfDirectory", "log_time_trace"}

\* An invalid check is followed by a prompt, a rejection by another check.
RejectionChecksAgain(entry) ==
    \A i \in entry :
       /\ EntryCheckInvalid(i) =>
             IF i = Len(log) THEN pc = "login"
             ELSE log[i + 1].e = "login" /\ log[i + 1].a[1] = "entry"
       /\ EntryLoginGave(i, "False") =>
             IF i = Len(log) THEN pc = "cvc"
             ELSE log[i + 1].e = "check_credentials" /\ log[i + 1].a[1] = "entry"

\* The three ends of the claim, with their results.
EndsOfTheCheck(entry, last) ==
    \A i \in entry :
       /\ (EntryCheckValid(i) \/ EntryLoginGave(i, "True")) =>
             /\ i = last
             /\ IF i = Len(log) THEN pc = "call" ELSE log[i + 1] = Ev("call", <<"first">>)
       /\ EntryLoginGave(i, "MissingCredentialsError") =>
             /\ i = last
             /\ wres = "False"
             /\ Count("call") = 0
             /\ OnlyTheEndAfter(i)

C18_Original ==
    LET entry == EntryIdx
        last  == IF entry = {} THEN 0 ELSE LastEntry
    IN  /\ RejectionChecksAgain(entry)
        /\ EndsOfTheCheck(entry, last)
        /\ CheckEnded =>
              \/ EntryCheckValid(last)
              \/ EntryLoginGave(last, "True")
              \/ EntryLoginGave(last, "MissingCredentialsError")

(***************************************************************************)
(* C18 amended: as stated, with a fourth end: the check also ends when the *)
(* login raises anything other than MissingCredentialsError; the exception *)
(* leaves the check without a result, a session-invalid one starts the     *)
(* wrapper's recovery cycle and any other one reaches run.  The check      *)
(* itself puts no bound on the number of prompts; it is left in every      *)
(* execution in which the rejections come to an end.                       *)
(***************************************************************************)
LoginFailureLeavesTheCheck(entry, last) ==
    \A i \in entry :
       EntryLoginRaised(i) =>
          /\ i = last
          /\ Count("call") = Cardinality(CallsAt("retry"))
          /\ log[i].a[3] \in SessionInvalid =>
                IF i = Len(log) THEN pc = "recover"
                ELSE log[i + 1].e = "check_credentials" /\ log[i + 1].a[1] = "recovery"
          /\ log[i].a[3] \notin SessionInvalid =>
                /\ wres = "raise"
                /\ exc.kind = log[i].a[3]
                /\ Count("call") = 0

InEntryCheck == pc \in {"cvc", "login"}

EntryCheckSteps ==
    LET entry == EntryIdx
        last  == IF entry = {} THEN 0 ELSE LastEntry
    IN  /\ RejectionChecksAgain(entry)
        /\ EndsOfTheCheck(entry, last)
        /\ LoginFailureLeavesTheCheck(entry, last)
        /\ CheckEnded =>
              \/ EntryCheckValid(last)
              \/ EntryLoginGave(last, "True")
              \/ EntryLoginGave(last, "MissingCredentialsError")
              \/ EntryLoginRaised(last)

\* The steps are as above in every state, and the check, once entered, is
\* left: the executions explored are those in which the user rejects at
\* most MaxWrongLogins times.
C18_EntryCheckLoop == []EntryCheckSteps /\ (InEntryCheck ~> ~InEntryCheck)

\* Two rejections, each followed by another check and another prompt, then
\* the user cancelled.
C18_Witness ==
    /\ pc = "done"
    /\ WrongLogins >= 2
    /\ Cardinality(LoginsAt("entry")) >= 3
    /\ EntryLoginGave(LastEntry, "MissingCredentialsError")
    /\ wres = "False"

(***************************************************************************)
(* C19: in the recovery cycle after a session-invalid failure, the login   *)
(* is made with prompting enabled exactly when the stored credentials are  *)
(* invalid at that moment; if that login reports failure or is cancelled,  *)
(* the wrapper returns false without prompting again and without calling   *)
(* the wrapped function again; only a successful recovery login is         *)
(* followed by the retry, and there is a single retry.                     *)
(***************************************************************************)
RecoveryLogins == LoginsAt("recovery")

\* The recovery login log[i] follows a check of the stored credentials and
\* asks for credentials exactly when that check answered invalid.
PromptsIffInvalid(i) ==
    /\ i > 1
    /\ log[i - 1].e = "check_credentials"
    /\ log[i - 1].a[1] = "recovery"
    /\ log[i - 1].a[2] \in {"True", "False"}
    /\ (log[i].a[2] = "True") <=> (log[i - 1].a[2] = "False")
    /\ log[i].a[2] \in {"True", "False"}

C19_RecoveryLoginThenSingleRetry ==
    /\ Cardinality(RecoveryLogins) <= 1
    /\ Cardinality(CallsAt("retry")) <= 1
    /\ \A i \in RecoveryLogins :
          /\ PromptsIffInvalid(i)
          /\ LoginReturned(i) \in {"False", "MissingCredentialsError"} =>
                /\ wres = "False"
                /\ CallsAt("retry") = {}
                /\ \A j \in Idx("login") : j <= i
                /\ OnlyTheEndAfter(i)
          /\ LoginReturned(i) = "True" =>
                IF i = Len(log) THEN pc = "retry"
                ELSE log[i + 1] = Ev("call", <<"retry">>)
    /\ \A c \in CallsAt("retry") :
          /\ c > 1
          /\ log[c - 1].e = "login"
          /\ log[c - 1].a[1] = "recovery"
          /\ LoginReturned(c - 1) = "True"

\* The first call failed with a session-invalid error while no valid
\* credentials were stored; the recovery login prompted, was rejected, and
\* the wrapper returned false without a retry.
C19_Witness ==
    /\ pc = "done"
    /\ SessionFailures("first") # {}
    /\ \E i \in RecoveryLogins :
          /\ log[i - 1] = Ev("check_credentials", <<"recovery", "False">>)
          /\ log[i].a = <<"recovery", "True", "False">>
    /\ CallsAt("retry") = {}
    /\ wres = "False"

(***************************************************************************)
(* C20: with the background service rewriting the status property at any   *)
(* moment before, during and after the guard's polling, run enters the     *)
(* migration check and routing only if its own read of the property, made  *)
(* after the guard returned, is running: a guard that left its loop on     *)
(* timeout or abort does not block dispatch when that read is running, and *)
(* a guard that saw running does not allow dispatch when that read is no   *)
(* longer running.                                                         *)
(***************************************************************************)
TryStates ==
    {"try", "firstrun", "config", "dispatch", "cvc", "login", "call",
     "recover", "retry", "except"}

\* run is past its status test of line 182.  The service's writes after
\* run's read are not modelled, so statusProp is what that read found.
PastStatusTest == pc \in TryStates \cup {"finish", "done"}

\* run went into the try block of lines 195-210.
EnteredTry ==
    \/ pc \in TryStates
    \/ Count("check_addon_upgrade") > 0
    \/ Count("check_credentials") > 0

PropertySaysRunning == statusProp = "{\"status\":\"running\"}"

C20_DispatchFollowsOwnRead ==
    PastStatusTest =>
       /\ EnteredTry <=> PropertySaysRunning
       /\ (guardExit = "gave up" /\ PropertySaysRunning) => EnteredTry
       /\ (guardExit = "running" /\ ~PropertySaysRunning) => ~EnteredTry /\ ~success

\* The guard gave up waiting, the service reported running before run's own
\* read, and the wrapped function was called.
C20_Witness ==
    /\ guardExit = "gave up"
    /\ is_external_call
    /\ PropertySaysRunning
    /\ Count("call") > 0
    /\ pc = "done"

\* The guard saw running, the service left that status before run's own
\* read, and run ended without dispatching.
C20_SawRunningThenNot ==
    /\ guardExit = "running"
    /\ is_external_call
    /\ ~PropertySaysRunning
    /\ ~EnteredTry
    /\ pc = "done"

=============================================================================
